---- MODULE Spec2Model ----
(***************************************************************************)
(* A model of the buzzard message bus (src/src/bus.rs): the command        *)
(* dispatch path, the event/policy path, message routing and the receive   *)
(* loop, run against capabilities (unit of work, handler, policy, policy   *)
(* context, projector, broker) that may succeed or fail at every call.     *)
(* Every `.await` of the source is one step; each in-flight call keeps a   *)
(* log of the capability calls it has made.                                *)
(***************************************************************************)
EXTENDS Integers, Sequences, FiniteSets, TLC

\* ---------------------------------------------------------------- bounds
MaxDeliveries == 3
MaxEvents == 2
MaxEffects == 2
\* deliveries the loop handles while a direct caller runs beside it and
\* the identities of their objects are followed
MaxConcDeliveries == 2

\* ------------------------------------------------------- message payloads
Commands == {"c1"}
Events == {"e1", "e2"}
Projections == {"p1", "p2"}
Identifiers == {"none", "id1"}
HandlerErrors == {"handler_err"}

Loops == {"loop"}
Callers == {"api"}
Procs == Loops \cup Callers

\* Message<C, E, P>: Command(C) | Event(E) | Projection(P)
MsgCommand(c) == [kind |-> "Command", body |-> c]
MsgEvent(e) == [kind |-> "Event", body |-> e]
MsgProjection(pr) == [kind |-> "Projection", body |-> pr]
Message ==
    {MsgCommand(c) : c \in Commands} \cup {MsgEvent(e) : e \in Events}
        \cup {MsgProjection(pr) : pr \in Projections}

\* SideEffect<C, P>: Command(C) | Projection(P)
SideEffect ==
    {[kind |-> "Command", body |-> c] : c \in Commands}
        \cup {[kind |-> "Projection", body |-> pr] : pr \in Projections}

NoMsg == [kind |-> "None", body |-> "none"]

\* anyhow::Result<T>
Ok(v) == [ok |-> TRUE, val |-> v]
Err(e) == [ok |-> FALSE, val |-> e]
Pending == [ok |-> FALSE, val |-> "pending"]

\* Vec<T> of at most n elements
SeqsUpTo(S, n) == UNION {[1..k -> S] : k \in 0..n}

\* one recorded capability call
Call(op, arg, ok, val, out) ==
    [op |-> op, arg |-> arg, ok |-> ok, val |-> val, out |-> out]

VARIABLES
    pc,         \* per call: the await point it is suspended at
    msg,        \* per call: the envelope being handled
    did,        \* per loop: the delivery id of that envelope
    uow,        \* per call: the unit of work of the dispatch in flight
    ctx,        \* per call: the policy context of the handle_event in flight
    res,        \* per call: the handler's / the policy arm's result
    ret,        \* per call: what dispatch / handle_event / project returned
    start_ret,  \* per loop: what start returned
    batch,      \* per call: the envelopes collected for publish_batch
    log,        \* per call: the capability calls of the operation in flight
    pulled,     \* broker: number of deliveries handed out by the receiver
    outcome,    \* per delivery id: result of handle_message
    acklog,     \* broker: the ack and nack calls received, in order
    queue,      \* broker: the envelopes accepted by publish_batch, in order
    owner,      \* per object: the call that created the live object
    held,       \* per call: the unit of work or policy context it holds
    store       \* domain: per command, how many of its units of work committed

vars ==
    <<pc, msg, did, uow, ctx, res, ret, start_ret, batch, log, pulled,
      outcome, acklog, queue, owner, held, store>>

\* identities of the units of work and policy contexts alive at one time:
\* every call holds at most one
ObjIds == 1..Cardinality(Procs)
NoOwner == "nobody"
NoObj == 0

NoUow == [status |-> "none", events |-> <<>>]

Init ==
    /\ pc = [p \in Procs |-> IF p \in Loops THEN "l_recv" ELSE "idle"]
    /\ msg = [p \in Procs |-> NoMsg]
    /\ did = [p \in Loops |-> 0]
    /\ uow = [p \in Procs |-> NoUow]
    /\ ctx = [p \in Procs |-> "none"]
    /\ res = [p \in Procs |-> Pending]
    /\ ret = [p \in Procs |-> Pending]
    /\ start_ret = [p \in Loops |-> Pending]
    /\ batch = [p \in Procs |-> <<>>]
    /\ log = [p \in Procs |-> <<>>]
    /\ pulled = 0
    /\ outcome = <<>>
    /\ acklog = <<>>
    /\ queue = <<>>
    /\ owner = [o \in ObjIds |-> NoOwner]
    /\ held = [p \in Procs |-> NoObj]
    /\ store = [c \in Commands |-> 0]

\* the await point a call resumes at once its routed operation has returned
ReturnTo(p) == IF p \in Loops THEN "l_ack" ELSE "idle"

\* handle_message: `routed(..).await?; Ok(())`, seen by start as Ok or Err
handle_message_result(r) == IF r.ok THEN "ok" ELSE "err"

\* the routed operation of call p returns r
Return(p, r) ==
    /\ pc' = [pc EXCEPT ![p] = ReturnTo(p)]
    /\ ret' = [ret EXCEPT ![p] = r]
    /\ outcome' =
        IF p \in Loops
        THEN [outcome EXCEPT ![did[p]] = handle_message_result(r)]
        ELSE outcome

Logged(p, c) == log' = [log EXCEPT ![p] = Append(@, c)]

\* ------------------------------------------------------------- dispatch
\* a fresh call frame for the routed operation on envelope m
Enter(p, m, at) ==
    /\ msg' = [msg EXCEPT ![p] = m]
    /\ pc' = [pc EXCEPT ![p] = at]
    /\ uow' = [uow EXCEPT ![p] = NoUow]
    /\ ctx' = [ctx EXCEPT ![p] = "none"]
    /\ res' = [res EXCEPT ![p] = Pending]
    /\ ret' = [ret EXCEPT ![p] = Pending]
    /\ batch' = [batch EXCEPT ![p] = <<>>]
    /\ log' = [log EXCEPT ![p] = <<>>]

\* the call frame of the routed operation is gone once its result is used
Leave(p) ==
    /\ msg' = [msg EXCEPT ![p] = NoMsg]
    /\ uow' = [uow EXCEPT ![p] = NoUow]
    /\ ctx' = [ctx EXCEPT ![p] = "none"]
    /\ res' = [res EXCEPT ![p] = Pending]
    /\ ret' = [ret EXCEPT ![p] = Pending]
    /\ batch' = [batch EXCEPT ![p] = <<>>]
    /\ log' = [log EXCEPT ![p] = <<>>]

\* a direct caller (application service, CLI, HTTP controller) invokes
\* bus.dispatch(cmd)
dispatch_call(p) ==
    /\ p \in Callers
    /\ pc[p] = "idle"
    /\ \E c \in Commands : Enter(p, MsgCommand(c), "d_create")
    /\ UNCHANGED <<did, start_ret, pulled, outcome, acklog>>

\* slip: the factory's error is not propagated and the handler is invoked
uow_factory_create_Mut(p) ==
    /\ pc[p] = "d_create"
    /\ \E ok \in BOOLEAN :
        /\ Logged(p, Call("uow_create", <<>>, ok, "unit", <<>>))
        /\ uow' = [uow EXCEPT ![p] = [status |-> "open", events |-> <<>>]]
        /\ pc' = [pc EXCEPT ![p] = "d_handle"]
        /\ UNCHANGED <<ret, outcome>>
    /\ UNCHANGED <<msg, did, ctx, res, start_ret, batch, pulled, acklog>>

\* let mut uow = self.engine.uow_factory.create().await?;
uow_factory_create(p) ==
    /\ pc[p] = "d_create"
    /\ \E ok \in BOOLEAN :
        /\ Logged(p, Call("uow_create", <<>>, ok, "unit", <<>>))
        /\ IF ok
           THEN /\ uow' = [uow EXCEPT ![p] = [status |-> "open", events |-> <<>>]]
                /\ pc' = [pc EXCEPT ![p] = "d_handle"]
                /\ UNCHANGED <<ret, outcome>>
           ELSE /\ Return(p, Err("uow_create_err"))
                /\ UNCHANGED uow
    /\ UNCHANGED <<msg, did, ctx, res, start_ret, batch, pulled, acklog>>

\* slip: the unit of work is committed whatever the handler returned
AfterHandle_Mut(r) == "d_commit"

\* the arm of `match self.engine.handler.handle(..).await` that is taken
AfterHandle(r) == IF r.ok THEN "d_commit" ELSE "d_rollback"

\* self.engine.handler.handle(&mut uow, cmd).await: the handler captures
\* events into the unit of work and returns Ok(identifier) or an error
handler_handle(p) ==
    /\ pc[p] = "d_handle"
    /\ \E evs \in SeqsUpTo(Events, MaxEvents),
          r \in {Ok(i) : i \in Identifiers} \cup {Err(e) : e \in HandlerErrors} :
        /\ uow' = [uow EXCEPT ![p].events = evs]
        /\ res' = [res EXCEPT ![p] = r]
        /\ Logged(p, Call("handle", <<msg[p]>>, r.ok, r.val, <<>>))
        /\ pc' = [pc EXCEPT ![p] = AfterHandle(r)]
    /\ UNCHANGED <<msg, did, ctx, ret, start_ret, batch, pulled, outcome,
                   acklog>>

\* slip: the events are collected in reverse order
WrapEvents_Mut(evs) == [i \in 1..Len(evs) |-> MsgEvent(evs[Len(evs) + 1 - i])]

\* .into_iter().map(DriverMessage::<D>::Event).collect()
WrapEvents(evs) == [i \in 1..Len(evs) |-> MsgEvent(evs[i])]

\* slip: a failed commit is followed by a rollback of the consumed unit of work
AfterCommit_MutRollback(p, ok) == IF ok THEN "d_publish" ELSE "d_rollback"

\* slip: the failed commit is not propagated and dispatch goes on to publish
AfterCommit_Mut(p, ok) == "d_publish"

\* where dispatch continues after `uow.commit().await?`
AfterCommit(p, ok) == IF ok THEN "d_publish" ELSE ReturnTo(p)

\* uow.commit().await?: commit consumes the unit of work and, on success,
\* returns the captured events
uow_commit(p) ==
    /\ pc[p] = "d_commit"
    /\ \E ok \in BOOLEAN :
        /\ Logged(p, Call("commit", <<>>, ok, "unit",
                          IF ok THEN uow[p].events ELSE <<>>))
        /\ uow' = [uow EXCEPT ![p] =
                      [status |-> IF ok THEN "committed" ELSE "commit_failed",
                       events |-> <<>>]]
        /\ batch' = [batch EXCEPT ![p] =
                        IF ok THEN WrapEvents(uow[p].events) ELSE <<>>]
        /\ IF AfterCommit(p, ok) = ReturnTo(p)
           THEN Return(p, Err("commit_err"))
           ELSE /\ pc' = [pc EXCEPT ![p] = AfterCommit(p, ok)]
                /\ UNCHANGED <<ret, outcome>>
    /\ UNCHANGED <<msg, did, ctx, res, start_ret, pulled, acklog>>

\* slip: the publish error is swallowed and the handler's result returned
PublishResult_Mut(ok, r) == r

\* self.engine.broker.publish_batch(events).await?; Ok(res)
PublishResult(ok, r) == IF ok THEN r ELSE Err("publish_err")

dispatch_publish_batch(p) ==
    /\ pc[p] = "d_publish"
    /\ \E ok \in BOOLEAN :
        /\ Logged(p, Call("publish_batch", batch[p], ok, "unit", <<>>))
        /\ Return(p, PublishResult(ok, res[p]))
    /\ UNCHANGED <<msg, did, uow, ctx, res, start_ret, batch, pulled, acklog>>

\* slip: the handler's error is replaced by a generic rollback error
RollbackResult_Mut(ok, r) == Err("rollback_err")

\* slip: the result of rollback is ignored
RollbackResult_MutKeep(ok, r) == r

\* uow.rollback().await?; Err(e)
RollbackResult(ok, r) == IF ok THEN r ELSE Err("rollback_err")

uow_rollback(p) ==
    /\ pc[p] = "d_rollback"
    /\ \E ok \in BOOLEAN :
        /\ Logged(p, Call("rollback", <<>>, ok, "unit", <<>>))
        /\ uow' = [uow EXCEPT ![p] =
                      [status |-> IF ok THEN "rolled_back" ELSE "rollback_failed",
                       events |-> <<>>]]
        /\ Return(p, RollbackResult(ok, res[p]))
    /\ UNCHANGED <<msg, did, ctx, res, start_ret, batch, pulled, acklog>>

\* --------------------------------------------------------- handle_event
\* let mut ctx = self.engine.policy_context_factory.create().await?;
policy_context_factory_create(p) ==
    /\ pc[p] = "e_create"
    /\ \E ok \in BOOLEAN :
        /\ Logged(p, Call("ctx_create", <<>>, ok, "unit", <<>>))
        /\ IF ok
           THEN /\ ctx' = [ctx EXCEPT ![p] = "open"]
                /\ pc' = [pc EXCEPT ![p] = "e_apply"]
                /\ UNCHANGED <<ret, outcome>>
           ELSE /\ Return(p, Err("ctx_create_err"))
                /\ UNCHANGED ctx
    /\ UNCHANGED <<msg, did, uow, res, start_ret, batch, pulled, acklog>>

\* slip: every side effect is wrapped as a Command envelope
ToMessage_Mut(se) == MsgCommand(se.body)

\* slip: a Projection side effect is re-emitted as an Event envelope
ToMessage_MutEvent(se) ==
    IF se.kind = "Command" THEN MsgCommand(se.body) ELSE MsgEvent(se.body)

\* SideEffect::Command(cmd) => Message::Command(cmd),
\* SideEffect::Projection(proj) => Message::Projection(proj)
ToMessage(se) ==
    IF se.kind = "Command" THEN MsgCommand(se.body) ELSE MsgProjection(se.body)

\* slip: only the first side effect is turned into an envelope
MapSideEffects_Mut(ses) ==
    [i \in 1..(IF Len(ses) > 1 THEN 1 ELSE Len(ses)) |-> ToMessage(ses[i])]

\* events.into_iter().map(..).collect::<Vec<_>>()
MapSideEffects(ses) == [i \in 1..Len(ses) |-> ToMessage(ses[i])]

\* slip: the side effects are published whatever the policy returned
AfterApply_Mut(r) == "e_publish"

\* slip: the context is closed without publishing the side effects
AfterApply_MutSkip(r) == "e_close"

\* the arm of `match self.engine.policy.apply(..).await` that is taken
AfterApply(r) == IF r.ok THEN "e_publish" ELSE "e_close"

\* self.engine.policy.apply(&mut ctx, event).await
policy_apply(p) ==
    /\ pc[p] = "e_apply"
    /\ \/ \E ses \in SeqsUpTo(SideEffect, MaxEffects) :
            /\ Logged(p, Call("apply", <<msg[p]>>, TRUE, "unit", ses))
            /\ batch' = [batch EXCEPT ![p] = MapSideEffects(ses)]
            /\ res' = [res EXCEPT ![p] = Ok("unit")]
            /\ pc' = [pc EXCEPT ![p] = AfterApply(Ok("unit"))]
       \/ /\ Logged(p, Call("apply", <<msg[p]>>, FALSE, "policy_err", <<>>))
          /\ batch' = batch
          /\ res' = [res EXCEPT ![p] = Err("policy_err")]
          /\ pc' = [pc EXCEPT ![p] = AfterApply(Err("policy_err"))]
    /\ UNCHANGED <<msg, did, uow, ctx, ret, start_ret, pulled, outcome, acklog>>

\* where handle_event continues after
\* `self.engine.broker.publish_batch(messages).await?`: the `?` sits in the
\* match arm, not in a closure, so a publish error returns from handle_event
AfterEventPublish(p, ok) == IF ok THEN "e_close" ELSE ReturnTo(p)

handle_event_publish_batch(p) ==
    /\ pc[p] = "e_publish"
    /\ \E ok \in BOOLEAN :
        /\ Logged(p, Call("publish_batch", batch[p], ok, "unit", <<>>))
        /\ IF AfterEventPublish(p, ok) = ReturnTo(p)
           THEN /\ Return(p, Err("publish_err"))
                /\ ctx' = [ctx EXCEPT ![p] = "dropped"]
           ELSE /\ pc' = [pc EXCEPT ![p] = AfterEventPublish(p, ok)]
                /\ UNCHANGED <<ret, outcome, ctx>>
    /\ UNCHANGED <<msg, did, uow, res, start_ret, batch, pulled, acklog>>

\* slip: a close failure is only reported when evaluation had succeeded
CloseResult_Mut(ok, r) == IF ok \/ ~r.ok THEN r ELSE Err("close_err")

\* slip: the result of close is ignored
CloseResult_MutIgnore(ok, r) == r

\* ctx.close().await?; res
CloseResult(ok, r) == IF ok THEN r ELSE Err("close_err")

ctx_close(p) ==
    /\ pc[p] = "e_close"
    /\ \E ok \in BOOLEAN :
        /\ Logged(p, Call("close", <<>>, ok, "unit", <<>>))
        /\ ctx' = [ctx EXCEPT ![p] = IF ok THEN "closed" ELSE "close_failed"]
        /\ Return(p, CloseResult(ok, res[p]))
    /\ UNCHANGED <<msg, did, uow, res, start_ret, batch, pulled, acklog>>

\* ------------------------------------------------------- handle_message
\* self.engine.projector.project(projection).await?
projector_project(p) ==
    /\ pc[p] = "p_project"
    /\ \E ok \in BOOLEAN :
        /\ Logged(p, Call("project", <<msg[p]>>, ok, "unit", <<>>))
        /\ Return(p, IF ok THEN Ok("unit") ELSE Err("project_err"))
    /\ UNCHANGED <<msg, did, uow, ctx, res, start_ret, batch, pulled, acklog>>

\* slip: the Event arm calls the projector
Route_Mut(m) ==
    CASE m.kind = "Command" -> "d_create"
      [] m.kind = "Event" -> "p_project"
      [] m.kind = "Projection" -> "p_project"

\* slip: the Projection arm runs the event path
Route_MutProjection(m) ==
    CASE m.kind = "Command" -> "d_create"
      [] m.kind = "Event" -> "e_create"
      [] m.kind = "Projection" -> "e_create"

\* match msg { Command => dispatch, Event => handle_event,
\*             Projection => projector.project }
Route(m) ==
    CASE m.kind = "Command" -> "d_create"
      [] m.kind = "Event" -> "e_create"
      [] m.kind = "Projection" -> "p_project"

\* ---------------------------------------------------------------- start
\* slip: the next delivery is pulled before the previous one is acknowledged
receiver_next_Mut(p) ==
    /\ p \in Loops
    /\ pc[p] \in {"l_recv", "l_ack"}
    /\ pulled < MaxDeliveries
    /\ \E m \in Message : Enter(p, m, Route(m))
    /\ pulled' = pulled + 1
    /\ did' = [did EXCEPT ![p] = pulled + 1]
    /\ outcome' = Append(outcome, "pending")
    /\ UNCHANGED <<start_ret, acklog>>

\* while let Some((id, msg)) = stream.next().await { handle_message(msg) ..
receiver_next(p) ==
    /\ p \in Loops
    /\ pc[p] = "l_recv"
    /\ pulled < MaxDeliveries
    /\ \E m \in Message : Enter(p, m, Route(m))
    /\ pulled' = pulled + 1
    /\ did' = [did EXCEPT ![p] = pulled + 1]
    /\ outcome' = Append(outcome, "pending")
    /\ UNCHANGED <<start_ret, acklog>>

\* stream.next() yields None: the loop is left and start returns Ok(())
receiver_end(p) ==
    /\ p \in Loops
    /\ pc[p] = "l_recv"
    /\ pc' = [pc EXCEPT ![p] = "done"]
    /\ start_ret' = [start_ret EXCEPT ![p] = Ok("unit")]
    /\ UNCHANGED <<msg, did, uow, ctx, res, ret, batch, log, pulled, outcome,
                   acklog>>

\* slip: the delivery is acknowledged whatever handle_message returned
AckOp_Mut(r) == "ack"

\* Ok(_) => broker.ack(id), Err(e) => broker.nack(id)
AckOp(r) == IF r = "ok" THEN "ack" ELSE "nack"

\* slip: the loop is left after every acknowledgment
AfterAck_MutStop(ok) == "done"

\* slip: a failed acknowledgment is ignored and the loop goes on
AfterAck_MutIgnore(ok) == "l_recv"

\* where start continues after `ack(id).await?` / `nack(id).await?`
AfterAck(ok) == IF ok THEN "l_recv" ELSE "done"

\* self.engine.broker.ack(id).await? / self.engine.broker.nack(id).await?
broker_ack_nack(p) ==
    /\ p \in Loops
    /\ pc[p] = "l_ack"
    /\ \E ok \in BOOLEAN :
        /\ acklog' = Append(acklog,
                            [op |-> AckOp(outcome[did[p]]), id |-> did[p],
                             ok |-> ok])
        /\ pc' = [pc EXCEPT ![p] = AfterAck(ok)]
        /\ start_ret' =
            IF AfterAck(ok) = "done"
            THEN [start_ret EXCEPT ![p] =
                     Err(IF AckOp(outcome[did[p]]) = "ack"
                         THEN "ack_err" ELSE "nack_err")]
            ELSE start_ret
    /\ Leave(p)
    /\ UNCHANGED <<did, pulled, outcome>>

\* slip: the engine keeps one object and hands it to every call
FreshObj_Mut == CHOOSE o \in ObjIds : \A o2 \in ObjIds : o <= o2

\* factory.create() constructs a new value: an identity no live object has
FreshObj ==
    CHOOSE o \in ObjIds :
        /\ owner[o] = NoOwner
        /\ \A o2 \in ObjIds : owner[o2] = NoOwner => o <= o2

\* `let mut uow = ..create().await?` / `let mut ctx = ..create().await?`
Created(p) ==
    \/ uow[p].status = "none" /\ uow'[p].status = "open"
    \/ ctx[p] = "none" /\ ctx'[p] = "open"

\* commit(self), rollback(self) and close(self) consume the object; a
\* return with the context still in scope drops it
Ended(p) ==
    \/ uow[p].status = "open" /\ uow'[p].status # "open"
    \/ ctx[p] = "open" /\ ctx'[p] # "open"

\* the local variable `uow` / `ctx` of the call p across one of its steps
Owned(p) ==
    IF Created(p)
    THEN /\ owner' = [owner EXCEPT ![FreshObj] = p]
         /\ held' = [held EXCEPT ![p] = FreshObj]
    ELSE IF Ended(p)
    THEN /\ owner' = [owner EXCEPT ![held[p]] = NoOwner]
         /\ held' = [held EXCEPT ![p] = NoObj]
    ELSE UNCHANGED <<owner, held>>

\* the broker handed to the engine: what becomes of published envelopes is
\* its own business, and its stream yields whatever it likes
AnyBroker == UNCHANGED queue

\* a run in which the identities of the objects are not followed
AnyObject == UNCHANGED <<owner, held>>

\* a run in which what the commits did to the domain is not followed
AnyStore == UNCHANGED store

Next ==
    \E p \in Procs :
        \/ dispatch_call(p) /\ AnyObject /\ AnyBroker /\ AnyStore
        \/ uow_factory_create(p) /\ AnyObject /\ AnyBroker /\ AnyStore
        \/ handler_handle(p) /\ AnyObject /\ AnyBroker /\ AnyStore
        \/ uow_commit(p) /\ AnyObject /\ AnyBroker /\ AnyStore
        \/ dispatch_publish_batch(p) /\ AnyObject /\ AnyBroker /\ AnyStore
        \/ uow_rollback(p) /\ AnyObject /\ AnyBroker /\ AnyStore
        \/ policy_context_factory_create(p) /\ AnyObject /\ AnyBroker /\ AnyStore
        \/ policy_apply(p) /\ AnyObject /\ AnyBroker /\ AnyStore
        \/ handle_event_publish_batch(p) /\ AnyObject /\ AnyBroker /\ AnyStore
        \/ ctx_close(p) /\ AnyObject /\ AnyBroker /\ AnyStore
        \/ projector_project(p) /\ AnyObject /\ AnyBroker /\ AnyStore
        \/ receiver_next(p) /\ AnyObject /\ AnyBroker /\ AnyStore
        \/ receiver_end(p) /\ AnyObject /\ AnyBroker /\ AnyStore
        \/ broker_ack_nack(p) /\ AnyObject /\ AnyBroker /\ AnyStore

Spec == Init /\ [][Next]_vars

\* the receive loop running on its own; every await of the loop completes
LoopNext ==
    \E p \in Loops :
        \/ uow_factory_create(p) /\ AnyObject /\ AnyBroker /\ AnyStore
        \/ handler_handle(p) /\ AnyObject /\ AnyBroker /\ AnyStore
        \/ uow_commit(p) /\ AnyObject /\ AnyBroker /\ AnyStore
        \/ dispatch_publish_batch(p) /\ AnyObject /\ AnyBroker /\ AnyStore
        \/ uow_rollback(p) /\ AnyObject /\ AnyBroker /\ AnyStore
        \/ policy_context_factory_create(p) /\ AnyObject /\ AnyBroker /\ AnyStore
        \/ policy_apply(p) /\ AnyObject /\ AnyBroker /\ AnyStore
        \/ handle_event_publish_batch(p) /\ AnyObject /\ AnyBroker /\ AnyStore
        \/ ctx_close(p) /\ AnyObject /\ AnyBroker /\ AnyStore
        \/ projector_project(p) /\ AnyObject /\ AnyBroker /\ AnyStore
        \/ receiver_next(p) /\ AnyObject /\ AnyBroker /\ AnyStore
        \/ receiver_end(p) /\ AnyObject /\ AnyBroker /\ AnyStore
        \/ broker_ack_nack(p) /\ AnyObject /\ AnyBroker /\ AnyStore

FairSpec == Init /\ [][LoopNext]_vars /\ WF_vars(LoopNext)

\* concurrent calls on clones of one bus, each object followed from its
\* creation to its end
ConcNext ==
    \E p \in Procs :
        \/ dispatch_call(p) /\ Owned(p) /\ AnyBroker /\ AnyStore
        \/ uow_factory_create(p) /\ Owned(p) /\ AnyBroker /\ AnyStore
        \/ handler_handle(p) /\ Owned(p) /\ AnyBroker /\ AnyStore
        \/ uow_commit(p) /\ Owned(p) /\ AnyBroker /\ AnyStore
        \/ dispatch_publish_batch(p) /\ Owned(p) /\ AnyBroker /\ AnyStore
        \/ uow_rollback(p) /\ Owned(p) /\ AnyBroker /\ AnyStore
        \/ policy_context_factory_create(p) /\ Owned(p) /\ AnyBroker /\ AnyStore
        \/ policy_apply(p) /\ Owned(p) /\ AnyBroker /\ AnyStore
        \/ handle_event_publish_batch(p) /\ Owned(p) /\ AnyBroker /\ AnyStore
        \/ ctx_close(p) /\ Owned(p) /\ AnyBroker /\ AnyStore
        \/ projector_project(p) /\ Owned(p) /\ AnyBroker /\ AnyStore
        \/ /\ pulled < MaxConcDeliveries
           /\ receiver_next(p)
           /\ Owned(p) /\ AnyBroker /\ AnyStore
        \/ receiver_end(p) /\ Owned(p) /\ AnyBroker /\ AnyStore
        \/ broker_ack_nack(p) /\ Owned(p) /\ AnyBroker /\ AnyStore

ConcSpec == Init /\ [][ConcNext]_vars

\* ------------------------------------------------- end-to-end flow
\* A broker that queues what publish_batch accepts and whose stream yields
\* the queue in order, each envelope once; every capability call succeeds.

\* every capability call call p has made, and every ack, succeeded
AllSucceed(p) ==
    /\ \A i \in 1..Len(log'[p]) : log'[p][i].ok
    /\ \A i \in 1..Len(acklog') : acklog'[i].ok

\* broker.publish_batch(messages): the batch joins the queue
Queued(p) ==
    queue' =
        IF /\ Len(log'[p]) = Len(log[p]) + 1
           /\ log'[p][Len(log'[p])].op = "publish_batch"
        THEN queue \o log'[p][Len(log'[p])].arg
        ELSE queue

\* the envelopes call q is about to publish
Reserved(q) ==
    IF pc[q] = "d_commit" THEN Len(uow[q].events)
    ELSE IF pc[q] \in {"d_publish", "e_publish"} THEN Len(batch[q])
    ELSE 0

RECURSIVE ReservedBy(_)
ReservedBy(S) ==
    IF S = {} THEN 0
    ELSE LET q == CHOOSE x \in S : TRUE
         IN Reserved(q) + ReservedBy(S \ {q})

\* the handlers and policies of the run emit MaxDeliveries envelopes at most
WithinBudget == (Len(queue) + ReservedBy(Procs))' <= MaxDeliveries

QueueBroker(p) ==
    AllSucceed(p) /\ Queued(p) /\ WithinBudget /\ AnyObject /\ AnyStore

\* a producer has published one command; the loop is about to be spawned
E2EInit ==
    /\ pc = [p \in Procs |-> IF p \in Loops THEN "l_recv" ELSE "idle"]
    /\ msg = [p \in Procs |-> NoMsg]
    /\ did = [p \in Loops |-> 0]
    /\ uow = [p \in Procs |-> NoUow]
    /\ ctx = [p \in Procs |-> "none"]
    /\ res = [p \in Procs |-> Pending]
    /\ ret = [p \in Procs |-> Pending]
    /\ start_ret = [p \in Loops |-> Pending]
    /\ batch = [p \in Procs |-> <<>>]
    /\ log = [p \in Procs |-> <<>>]
    /\ pulled = 0
    /\ outcome = <<>>
    /\ acklog = <<>>
    /\ queue \in {<<MsgCommand(c)>> : c \in Commands}
    /\ owner = [o \in ObjIds |-> NoOwner]
    /\ held = [p \in Procs |-> NoObj]
    /\ store = [c \in Commands |-> 0]

E2ENext ==
    \E p \in Loops :
        \/ uow_factory_create(p) /\ QueueBroker(p)
        \/ handler_handle(p) /\ QueueBroker(p)
        \/ uow_commit(p) /\ QueueBroker(p)
        \/ dispatch_publish_batch(p) /\ QueueBroker(p)
        \/ policy_context_factory_create(p) /\ QueueBroker(p)
        \/ policy_apply(p) /\ QueueBroker(p)
        \/ handle_event_publish_batch(p) /\ QueueBroker(p)
        \/ ctx_close(p) /\ QueueBroker(p)
        \/ projector_project(p) /\ QueueBroker(p)
        \/ /\ pulled < Len(queue)
           /\ receiver_next(p)
           /\ msg'[p] = queue[pulled + 1]
           /\ QueueBroker(p)
        \/ /\ pulled = MaxDeliveries
           /\ receiver_end(p)
           /\ QueueBroker(p)
        \/ broker_ack_nack(p) /\ QueueBroker(p)

\* the spawned loop task is polled whenever it can go on
E2ESpec == E2EInit /\ [][E2ENext]_vars /\ WF_vars(E2ENext)

\* ----------------------------------------------------- redelivery
\* A broker that hands a nacked delivery out again: the stream of the loop
\* carries the commands of a producer and what the loop nacked; the
\* events the loop publishes go to other consumers.

\* uow.commit() returning Ok: the mutation of the command is in the domain
Stored(p) ==
    store' =
        IF uow[p].status = "open" /\ uow'[p].status = "committed"
        THEN [store EXCEPT ![msg[p].body] = @ + 1]
        ELSE store

\* broker.nack(id) returning Ok: the envelope is delivered again later
Redelivered(p) ==
    queue' =
        IF /\ Len(acklog') = Len(acklog) + 1
           /\ acklog'[Len(acklog')].op = "nack"
           /\ acklog'[Len(acklog')].ok
        THEN Append(queue, msg[p])
        ELSE queue

RedeliverBroker(p) == Stored(p) /\ Redelivered(p) /\ AnyObject

RedeliverNext ==
    \E p \in Loops :
        \/ uow_factory_create(p) /\ RedeliverBroker(p)
        \/ handler_handle(p) /\ RedeliverBroker(p)
        \/ uow_commit(p) /\ RedeliverBroker(p)
        \/ dispatch_publish_batch(p) /\ RedeliverBroker(p)
        \/ uow_rollback(p) /\ RedeliverBroker(p)
        \/ /\ pulled < Len(queue)
           /\ receiver_next(p)
           /\ msg'[p] = queue[pulled + 1]
           /\ RedeliverBroker(p)
        \/ /\ pulled = Len(queue)
           /\ receiver_end(p)
           /\ RedeliverBroker(p)
        \/ broker_ack_nack(p) /\ RedeliverBroker(p)

RedeliverSpec == E2EInit /\ [][RedeliverNext]_vars

\* ====================================================================
\* Properties
\* ====================================================================
\* positions of the calls of capability op in log l
Ops(l, op) == {i \in 1..Len(l) : l[i].op = op}
Count(l, op) == Cardinality(Ops(l, op))
\* positions of the calls of op in l that succeeded / failed
OkOps(l, op) == {i \in Ops(l, op) : l[i].ok}
FailedOps(l, op) == {i \in Ops(l, op) : ~l[i].ok}

\* the routed operation of p has returned and its frame is still there
Returned(p) == pc[p] = ReturnTo(p) /\ ret[p] # Pending
InDispatch(p) == msg[p].kind = "Command"
InHandleEvent(p) == msg[p].kind = "Event"

\* C1: within one dispatch call the capability calls come in the order
\* unit-of-work creation, handler, commit or rollback, publish_batch; a
\* publish_batch call is always directly preceded by a successful commit.
C1_DispatchCallOrder ==
    \A p \in Procs :
        InDispatch(p) =>
            \A i \in 1..Len(log[p]) :
                LET c == log[p][i]
                IN /\ c.op \in {"uow_create", "handle", "commit", "rollback",
                                "publish_batch"}
                   /\ c.op = "uow_create" => i = 1
                   /\ c.op = "handle" =>
                        i = 2 /\ log[p][1].op = "uow_create" /\ log[p][1].ok
                   /\ c.op \in {"commit", "rollback"} =>
                        i = 3 /\ log[p][2].op = "handle"
                   /\ c.op = "publish_batch" =>
                        i = 4 /\ log[p][3].op = "commit" /\ log[p][3].ok

C1_Witness ==
    \E p \in Procs :
        /\ InDispatch(p)
        /\ Len(log[p]) = 4
        /\ log[p][4].op = "publish_batch"

\* C2: when the handler and the commit succeeded, the returned dispatch
\* call has made exactly one publish_batch call, and its batch is the list
\* commit returned, element by element wrapped as Event envelopes.
C2_CommittedEventsPublishedOnce ==
    \A p \in Procs :
        (InDispatch(p) /\ Returned(p) /\ OkOps(log[p], "handle") # {}
            /\ OkOps(log[p], "commit") # {}) =>
            /\ Count(log[p], "publish_batch") = 1
            /\ \A c \in OkOps(log[p], "commit"), b \in Ops(log[p], "publish_batch") :
                LET evs == log[p][c].out
                    sent == log[p][b].arg
                IN /\ Len(sent) = Len(evs)
                   /\ \A k \in 1..Len(evs) :
                        sent[k].kind = "Event" /\ sent[k].body = evs[k]

C2_Witness ==
    \E p \in Procs :
        /\ InDispatch(p) /\ Returned(p)
        /\ \E c \in OkOps(log[p], "commit") : log[p][c].out = <<"e1", "e2">>
        /\ Count(log[p], "publish_batch") = 1

\* C3: once the handler has returned an error, the dispatch call never
\* commits and never publishes, and by the time it returns it has rolled
\* the unit of work back exactly once.
C3_HandlerFailureRollsBack ==
    \A p \in Procs :
        (InDispatch(p) /\ FailedOps(log[p], "handle") # {}) =>
            /\ Count(log[p], "commit") = 0
            /\ Count(log[p], "publish_batch") = 0
            /\ Count(log[p], "rollback") <= 1
            /\ Returned(p) => Count(log[p], "rollback") = 1

C3_Witness ==
    \E p \in Procs :
        /\ InDispatch(p) /\ Returned(p)
        /\ FailedOps(log[p], "handle") # {}
        /\ Count(log[p], "rollback") = 1

\* C4 as stated: whenever the handler returns an error e, dispatch calls
\* rollback and returns e unchanged.
C4_HandlerErrorReturnedUnchanged ==
    \A p \in Procs :
        (InDispatch(p) /\ Returned(p)) =>
            \A h \in FailedOps(log[p], "handle") :
                /\ Count(log[p], "rollback") = 1
                /\ ret[p] = Err(log[p][h].val)

\* C4 amended: whenever the handler returns an error e, dispatch calls
\* rollback and, when that rollback succeeds, returns e unchanged.
C4_HandlerErrorReturnedIfRollbackOk ==
    \A p \in Procs :
        (InDispatch(p) /\ Returned(p)) =>
            \A h \in FailedOps(log[p], "handle") :
                /\ Count(log[p], "rollback") = 1
                /\ OkOps(log[p], "rollback") # {} => ret[p] = Err(log[p][h].val)

C4_Witness ==
    \E p \in Procs :
        /\ InDispatch(p) /\ Returned(p)
        /\ FailedOps(log[p], "handle") # {}
        /\ OkOps(log[p], "rollback") # {}
        /\ ret[p] = Err("handler_err")

\* C5: every handle_event call that created a policy context has closed
\* it exactly once by the time it returns.
C5_ContextClosedExactlyOnce ==
    \A p \in Procs :
        (InHandleEvent(p) /\ Returned(p) /\ OkOps(log[p], "ctx_create") # {}) =>
            Count(log[p], "close") = 1

\* C6 as stated: when policy evaluation fails and the close fails too,
\* handle_event returns the evaluation error.
C6_EvalErrorReturnedOnCloseFailure ==
    \A p \in Procs :
        (InHandleEvent(p) /\ Returned(p) /\ FailedOps(log[p], "apply") # {}
            /\ FailedOps(log[p], "close") # {}) =>
            ret[p] = Err("policy_err")

\* C6 amended: when policy evaluation fails and the close fails too,
\* handle_event returns the close error; the evaluation error is dropped.
C6_CloseErrorReturnedOnCloseFailure ==
    \A p \in Procs :
        (InHandleEvent(p) /\ Returned(p) /\ FailedOps(log[p], "apply") # {}
            /\ FailedOps(log[p], "close") # {}) =>
            ret[p] = Err("close_err")

C6_Witness ==
    \E p \in Procs :
        /\ InHandleEvent(p) /\ Returned(p)
        /\ FailedOps(log[p], "apply") # {}
        /\ FailedOps(log[p], "close") # {}

\* C7: once policy evaluation has succeeded and the publish step is over,
\* handle_event has made exactly one publish_batch call; its batch has the
\* length of the side-effect list and its i-th envelope has the variant and
\* the payload of the i-th side effect, never the Event variant.
C7_SideEffectsPublishedAsEnvelopes ==
    \A p \in Procs :
        (InHandleEvent(p) /\ pc[p] # "e_publish") =>
            \A a \in OkOps(log[p], "apply") :
                /\ Count(log[p], "publish_batch") = 1
                /\ \A b \in Ops(log[p], "publish_batch") :
                    LET ses == log[p][a].out
                        sent == log[p][b].arg
                    IN /\ Len(sent) = Len(ses)
                       /\ \A k \in 1..Len(ses) :
                            /\ sent[k].kind = ses[k].kind
                            /\ sent[k].body = ses[k].body
                            /\ sent[k].kind # "Event"

C7_Witness ==
    \E p \in Procs :
        /\ InHandleEvent(p) /\ Returned(p)
        /\ \E a \in OkOps(log[p], "apply") :
            log[p][a].out = <<[kind |-> "Projection", body |-> "p2"],
                              [kind |-> "Command", body |-> "c1"]>>
        /\ Count(log[p], "publish_batch") = 1

\* the acknowledgment calls made for delivery id
AcksFor(id) == {i \in 1..Len(acklog) : acklog[i].id = id}
\* delivery id has been pulled and the loop has not acknowledged it yet
InFlight(id) == \E p \in Loops : did[p] = id /\ pc[p] \notin {"l_recv", "done"}

\* C8: every acknowledgment call carries the id of a pulled delivery whose
\* routed operation has completed, and is an ack exactly when that
\* operation succeeded and a nack exactly when it failed; every pulled
\* delivery the loop is done with has exactly one acknowledgment call, and
\* a delivery still being handled has none.
C8_OneAckPerDelivery ==
    /\ \A i \in 1..Len(acklog) :
        LET a == acklog[i]
        IN /\ a.id \in 1..pulled
           /\ outcome[a.id] # "pending"
           /\ a.op = "ack" <=> outcome[a.id] = "ok"
           /\ a.op = "nack" <=> outcome[a.id] = "err"
    /\ \A id \in 1..pulled :
        Cardinality(AcksFor(id)) = IF InFlight(id) THEN 0 ELSE 1

C8_Witness ==
    /\ Len(acklog) = 3
    /\ acklog[1].op = "ack" /\ acklog[2].op = "nack" /\ acklog[3].op = "ack"
    /\ \A i \in 1..3 : acklog[i].ok

\* C9: a failed routed operation takes the loop to its negative
\* acknowledgment and leaves start running; a successful nack takes the
\* loop back to the receiver; start only ever returns an error that an
\* ack or nack call raised.
C9_FaultIsolation ==
    /\ [][\A p \in Loops :
            /\ (ret[p] = Pending /\ ret'[p] # Pending /\ ~ret'[p].ok) =>
                (pc'[p] = "l_ack" /\ start_ret'[p] = Pending)
            /\ (pc[p] = "l_ack" /\ outcome[did[p]] = "err"
                    /\ acklog' = Append(acklog, [op |-> "nack", id |-> did[p],
                                                 ok |-> TRUE])) =>
                (pc'[p] = "l_recv" /\ start_ret'[p] = Pending)]_vars
    /\ [](\A p \in Loops :
            (start_ret[p] # Pending /\ ~start_ret[p].ok) =>
                /\ start_ret[p].val \in {"ack_err", "nack_err"}
                /\ Len(acklog) > 0 /\ ~acklog[Len(acklog)].ok)

C9_Witness ==
    /\ Len(acklog) >= 1
    /\ acklog[1].op = "nack" /\ acklog[1].ok
    /\ pulled >= 2
    /\ outcome[2] # "pending"

\* C10: start has returned exactly when the loop is left; it returns Ok
\* only with every pulled delivery acknowledged by a successful call, and
\* an error only when the last ack or nack call failed, the error being
\* that call's; after it returned nothing more is pulled or acknowledged;
\* and with a finite receive sequence start eventually returns.
C10_StartTermination ==
    /\ [](\A p \in Loops :
            /\ (pc[p] = "done") <=> (start_ret[p] # Pending)
            /\ pc[p] = "done" =>
                \/ /\ start_ret[p] = Ok("unit")
                   /\ \A id \in 1..pulled : Cardinality(AcksFor(id)) = 1
                   /\ \A i \in 1..Len(acklog) : acklog[i].ok
                \/ /\ Len(acklog) > 0
                   /\ ~acklog[Len(acklog)].ok
                   /\ start_ret[p] =
                        Err(IF acklog[Len(acklog)].op = "ack"
                            THEN "ack_err" ELSE "nack_err"))
    /\ [][\A p \in Loops :
            pc[p] = "done" =>
                /\ pc'[p] = "done"
                /\ UNCHANGED <<pulled, acklog, outcome, start_ret, log>>]_vars
    /\ <>(\A p \in Loops : pc[p] = "done")

C10_Witness ==
    \E p \in Loops :
        /\ pc[p] = "done"
        /\ start_ret[p] = Ok("unit")
        /\ pulled = 2
        /\ Len(acklog) = 2

\* C11: when the handler succeeded and the commit failed, dispatch makes no
\* publish_batch call and returns the commit error, not the handler's result.
C11_CommitFailureReturned ==
    \A p \in Procs :
        (InDispatch(p) /\ OkOps(log[p], "handle") # {}
            /\ FailedOps(log[p], "commit") # {}) =>
            /\ Count(log[p], "publish_batch") = 0
            /\ Returned(p)
            /\ ret[p] = Err("commit_err")
            /\ ret[p] # res[p]

C11_Witness ==
    \E p \in Procs :
        /\ InDispatch(p) /\ Returned(p)
        /\ OkOps(log[p], "handle") # {}
        /\ FailedOps(log[p], "commit") # {}
        /\ res[p] = Ok("id1")

\* C12 as stated: when command handling fails or the commit fails, dispatch
\* has invoked rollback on the unit of work and returns an error.
C12_RolledBackOnHandlerOrCommitFailure ==
    \A p \in Procs :
        (InDispatch(p) /\ Returned(p)
            /\ (FailedOps(log[p], "handle") # {}
                    \/ FailedOps(log[p], "commit") # {})) =>
            /\ Count(log[p], "rollback") = 1
            /\ ~ret[p].ok

\* the unit-of-work calls of log l: the handler's use, commit and rollback
UowEnds(l) == Ops(l, "commit") \cup Ops(l, "rollback")

PathOps(kind) ==
    CASE kind = "Command" ->
            {"uow_create", "handle", "commit", "rollback", "publish_batch"}
      [] kind = "Event" -> {"ctx_create", "apply", "publish_batch", "close"}
      [] kind = "Projection" -> {"project"}
      [] OTHER -> {}
\* the capability a delivered envelope is handed to
PathEntry(kind) ==
    CASE kind = "Command" -> "handle"
      [] kind = "Event" -> "apply"
      [] kind = "Projection" -> "project"
      [] OTHER -> "none"

\* C14: for a delivered envelope the loop only calls capabilities of the
\* path of the envelope's variant; the handler, the policy or the projector
\* is handed the embedded payload; and an operation that returned has
\* entered its path.
C14_RoutedByVariant ==
    \A p \in Loops :
        /\ \A i \in 1..Len(log[p]) :
            /\ log[p][i].op \in PathOps(msg[p].kind)
            /\ log[p][i].op = PathEntry(msg[p].kind) =>
                log[p][i].arg = <<msg[p]>>
        /\ \A kind \in {"Command", "Event", "Projection"} :
            Count(log[p], PathEntry(kind)) <=
                IF kind = msg[p].kind THEN 1 ELSE 0
        /\ Returned(p) => Len(log[p]) >= 1

C14_Witness ==
    \E p \in Loops :
        /\ Returned(p)
        /\ msg[p] = MsgEvent("e2")
        /\ Count(log[p], "apply") = 1

\* C15: when the unit-of-work factory fails, dispatch returns that error
\* having made no other call; when the policy-context factory fails,
\* handle_event returns that error having made no other call.
C15_ConstructionFailureIsolated ==
    \A p \in Procs :
        /\ FailedOps(log[p], "uow_create") # {} =>
            /\ Len(log[p]) = 1
            /\ Returned(p)
            /\ ret[p] = Err("uow_create_err")
            /\ uow[p].status = "none"
        /\ FailedOps(log[p], "ctx_create") # {} =>
            /\ Len(log[p]) = 1
            /\ Returned(p)
            /\ ret[p] = Err("ctx_create_err")
            /\ ctx[p] = "none"

C15_Witness ==
    \E p, q \in Procs :
        /\ FailedOps(log[p], "uow_create") # {}
        /\ FailedOps(log[q], "ctx_create") # {}

\* C16: when the commit succeeded and publish_batch failed, dispatch
\* returns the publish error, has called publish_batch once and rollback
\* never, and the unit of work stays committed.
C16_PublishFailureAfterCommit ==
    \A p \in Procs :
        (InDispatch(p) /\ OkOps(log[p], "commit") # {}
            /\ FailedOps(log[p], "publish_batch") # {}) =>
            /\ Returned(p)
            /\ ret[p] = Err("publish_err")
            /\ Count(log[p], "publish_batch") = 1
            /\ Count(log[p], "rollback") = 0
            /\ uow[p].status = "committed"

C16_Witness ==
    \E p \in Procs :
        /\ InDispatch(p) /\ Returned(p)
        /\ \E c \in OkOps(log[p], "commit") : Len(log[p][c].out) = 2
        /\ FailedOps(log[p], "publish_batch") # {}

\* C17: one loop instance handles its deliveries one at a time in delivery
\* order: acknowledgments come in the order the deliveries were pulled;
\* when a delivery is pulled every earlier one has completed its routed
\* operation and its ack or nack; at most one delivery is in flight.
C17_OneAtATime ==
    /\ \A i \in 1..Len(acklog) : acklog[i].id = i
    /\ \A id \in 1..pulled :
        id < pulled =>
            /\ outcome[id] # "pending"
            /\ AcksFor(id) # {}
    /\ Cardinality({id \in 1..pulled : InFlight(id)}) <= 1
    /\ \A p \in Loops : pc[p] \notin {"l_recv", "done"} => did[p] = pulled

C17_Witness ==
    /\ pulled = 3
    /\ Len(acklog) = 2
    /\ InFlight(3)

\* the Event envelopes of batch b
EventsIn(b) == {k \in 1..Len(b) : b[k].kind = "Event"}

\* C18: every publish_batch call that carries an Event envelope is made by
\* a dispatch call after its commit succeeded, and each Event envelope in
\* it wraps an event that commit returned; the batches of handle_event
\* carry no Event envelope and the projection path publishes nothing.
C18_EventsOnlyFromCommit ==
    \A p \in Procs :
        \A b \in Ops(log[p], "publish_batch") :
            /\ InDispatch(p) \/ InHandleEvent(p)
            /\ InHandleEvent(p) => EventsIn(log[p][b].arg) = {}
            /\ EventsIn(log[p][b].arg) # {} =>
                /\ InDispatch(p)
                /\ \E c \in OkOps(log[p], "commit") :
                    /\ c < b
                    /\ \A k \in EventsIn(log[p][b].arg) :
                        \E j \in 1..Len(log[p][c].out) :
                            log[p][c].out[j] = log[p][b].arg[k].body

C18_Witness ==
    \E p, q \in Procs :
        /\ InDispatch(p)
        /\ \E b \in OkOps(log[p], "publish_batch") : EventsIn(log[p][b].arg) # {}
        /\ InHandleEvent(q)
        /\ \E b \in OkOps(log[q], "publish_batch") : Len(log[q][b].arg) = 2

\* C20: with a direct caller and a receive loop running concurrently, a
\* call holds an object exactly while its unit of work or policy context is
\* open; the object it hands to the handler, commit, rollback, the policy
\* or close is one it created itself; no two calls hold the same object.
C20_ObjectsOwnedByOneCall ==
    \A p \in Procs :
        /\ held[p] # NoObj <=> (uow[p].status = "open" \/ ctx[p] = "open")
        /\ pc[p] \in {"d_handle", "d_commit", "d_rollback", "e_apply",
                      "e_publish", "e_close"} => held[p] # NoObj
        /\ held[p] # NoObj => owner[held[p]] = p
        /\ \A q \in Procs \ {p} : held[p] # NoObj => held[q] # held[p]

C20_Witness ==
    \E p \in Loops, q \in Callers :
        /\ pc[p] = "e_apply"
        /\ pc[q] = "d_commit"
        /\ held[p] # NoObj /\ held[q] # NoObj
        /\ held[q] < held[p]

\* call p has published the values its successful call of op returned (the
\* events of commit, the side effects of apply): they are the last
\* envelopes of the broker's queue, in order, each under its own variant
PublishedFrom(p, op) ==
    \E c \in OkOps(log[p], op) :
        LET out == log[p][c].out
            base == Len(queue) - Len(out)
        IN /\ OkOps(log[p], "publish_batch") # {}
           /\ base >= 0
           /\ \A k \in 1..Len(out) :
                IF op = "commit"
                THEN queue[base + k] = [kind |-> "Event", body |-> out[k]]
                ELSE queue[base + k] = out[k]

\* the i-th published envelope has been delivered and its path has run to
\* a successful return, its payload handed to the handler, the policy or
\* the projector
Routed(i) ==
    \E p \in Loops :
        /\ did[p] = i
        /\ Returned(p) /\ ret[p].ok
        /\ \E c \in OkOps(log[p], PathEntry(queue[i].kind)) :
            log[p][c].arg = <<queue[i]>>

\* C19: with a broker that delivers each published envelope once, in order,
\* and with every capability call succeeding: the events a handler captured
\* reach the broker as Event envelopes and the side effects a policy
\* returned reach it under their own variant; every published envelope not
\* yet delivered is eventually routed, an Event to the policy, a Projection to the
\* projector, a Command to the command path; and it is routed once: the
\* deliveries are numbered one by one, delivery i carries the i-th
\* envelope and makes one call of its path's entry.
C19_EndToEndFlow ==
    /\ \A p \in Procs :
        /\ (pc[p] = "d_commit") ~> PublishedFrom(p, "commit")
        /\ (pc[p] = "e_publish") ~> PublishedFrom(p, "apply")
    /\ \A i \in 1..MaxDeliveries :
        (Len(queue) >= i /\ pulled < i) ~> Routed(i)
    /\ [](\A p \in Loops :
            msg[p] # NoMsg =>
                /\ did[p] <= Len(queue)
                /\ msg[p] = queue[did[p]]
                /\ Count(log[p], PathEntry(msg[p].kind)) <= 1)
    /\ [][/\ pulled' \in {pulled, pulled + 1}
          /\ \A p \in Loops : did'[p] # did[p] => did'[p] = pulled + 1]_vars

C19_Witness ==
    \E i, j \in 1..Len(queue) :
        /\ queue[1].kind = "Command"
        /\ 1 < i /\ i < j
        /\ queue[i].kind = "Event"
        /\ queue[j].kind = "Projection"
        /\ Len(acklog) >= i
        /\ Routed(j)

\* C21: within one handle_event call the capability calls come in the
\* order context creation, policy evaluation, publish_batch, close: the
\* policy is evaluated right after the context was created, publish_batch
\* follows an evaluation that returned success, and close follows the
\* publish step, or the evaluation when that failed.
C21_HandleEventCallOrder ==
    \A p \in Procs :
        InHandleEvent(p) =>
            \A i \in 1..Len(log[p]) :
                LET c == log[p][i]
                IN /\ c.op \in {"ctx_create", "apply", "publish_batch", "close"}
                   /\ c.op = "ctx_create" => i = 1
                   /\ c.op = "apply" =>
                        i = 2 /\ log[p][1].op = "ctx_create" /\ log[p][1].ok
                   /\ c.op = "publish_batch" =>
                        i = 3 /\ log[p][2].op = "apply" /\ log[p][2].ok
                   /\ c.op = "close" =>
                        \/ i = 4 /\ log[p][3].op = "publish_batch"
                        \/ i = 3 /\ log[p][2].op = "apply" /\ ~log[p][2].ok

C21_Witness ==
    \E p \in Loops :
        /\ InHandleEvent(p) /\ Returned(p)
        /\ Len(log[p]) = 4
        /\ log[p][4].op = "close"
        /\ Len(log[p][3].arg) = 2

\* C22: a Projection delivery makes one call, project with the embedded
\* projection, and makes it before its operation returns; it creates no
\* unit of work and no policy context and collects and publishes no
\* envelope; the broker gets no acknowledgment for it while it is handled.
C22_ProjectionOnlyProjects ==
    \A p \in Loops :
        msg[p].kind = "Projection" =>
            /\ \A i \in 1..Len(log[p]) :
                /\ i = 1
                /\ log[p][i].op = "project"
                /\ log[p][i].arg = <<msg[p]>>
            /\ Returned(p) <=> Len(log[p]) = 1
            /\ uow[p] = NoUow
            /\ ctx[p] = "none"
            /\ batch[p] = <<>>
            /\ AcksFor(did[p]) = {}

C22_Witness ==
    \E p \in Loops :
        /\ msg[p] = MsgProjection("p2")
        /\ Returned(p)
        /\ ret[p] = Ok("unit")
        /\ did[p] > 1

\* C23: once the policy has returned an error, handle_event never
\* publishes; by the time it returns it has closed the context once, and
\* returns the policy's error when that close succeeded; the loop then
\* sends a nack for the delivery and, when the nack succeeds, goes on to
\* the next delivery.
C23_PolicyFailureClosesAndNacks ==
    /\ [](\A p \in Loops :
            (InHandleEvent(p) /\ FailedOps(log[p], "apply") # {}) =>
                /\ Count(log[p], "publish_batch") = 0
                /\ Returned(p) =>
                    /\ Count(log[p], "close") = 1
                    /\ OkOps(log[p], "close") # {} => ret[p] = Err("policy_err")
                    /\ outcome[did[p]] = "err")
    /\ [][\A p \in Loops :
            (InHandleEvent(p) /\ FailedOps(log[p], "apply") # {}
                /\ pc[p] = "l_ack" /\ pc'[p] # "l_ack") =>
                /\ Len(acklog') = Len(acklog) + 1
                /\ acklog'[Len(acklog')].op = "nack"
                /\ acklog'[Len(acklog')].id = did[p]
                /\ acklog'[Len(acklog')].ok => pc'[p] = "l_recv"]_vars

C23_Witness ==
    \E p \in Loops :
        /\ InHandleEvent(p) /\ Returned(p)
        /\ FailedOps(log[p], "apply") # {}
        /\ ret[p] = Err("policy_err")
        /\ did[p] = 2
        /\ acklog = <<[op |-> "nack", id |-> 1, ok |-> TRUE]>>

\* C24: when the policy and the publish of its side effects succeeded and
\* close failed, handle_event returns the close error; close is its last
\* call, so the one publish_batch call stands; the delivery counts as
\* failed, which is what the loop nacks.
C24_CloseFailureAfterPublish ==
    \A p \in Loops :
        (InHandleEvent(p) /\ OkOps(log[p], "apply") # {}
            /\ OkOps(log[p], "publish_batch") # {}
            /\ FailedOps(log[p], "close") # {}) =>
            /\ Returned(p)
            /\ ret[p] = Err("close_err")
            /\ Count(log[p], "publish_batch") = 1
            /\ log[p][Len(log[p])].op = "close"
            /\ outcome[did[p]] = "err"
            /\ AckOp(outcome[did[p]]) = "nack"

C24_Witness ==
    \E p \in Loops :
        /\ InHandleEvent(p) /\ Returned(p)
        /\ \E b \in OkOps(log[p], "publish_batch") : Len(log[p][b].arg) = 2
        /\ FailedOps(log[p], "close") # {}

\* C25: when the handler failed and the rollback failed too, dispatch
\* returns the rollback error, not the handler's, and has made no
\* publish_batch call.
C25_RollbackErrorMasksHandlerError ==
    \A p \in Procs :
        (InDispatch(p) /\ FailedOps(log[p], "handle") # {}
            /\ FailedOps(log[p], "rollback") # {}) =>
            /\ Returned(p)
            /\ ret[p] = Err("rollback_err")
            /\ ret[p] # res[p]
            /\ Count(log[p], "publish_batch") = 0

C25_Witness ==
    \E p \in Procs :
        /\ InDispatch(p) /\ Returned(p)
        /\ res[p] = Err("handler_err")
        /\ FailedOps(log[p], "rollback") # {}

\* the unit of work of the Command delivery p handles committed / its
\* event batch was published / the publish failed
Committed(p) == OkOps(log[p], "commit") # {}
BatchPublished(p) == OkOps(log[p], "publish_batch") # {}
BatchLost(p) == FailedOps(log[p], "publish_batch") # {}

\* C26: with a broker that redelivers what is nacked: a Command delivery
\* counts as succeeded, and is acked, only if its unit of work committed
\* and its event batch was published; a Command delivery whose commit
\* succeeded and whose publish_batch failed is nacked with its mutation in
\* the domain, a successful nack queues the command again and undoes
\* nothing; what was committed is never taken back.
C26_NackAfterCommitRedelivers ==
    /\ [](\A p \in Loops :
            (InDispatch(p) /\ Returned(p)) =>
                /\ outcome[did[p]] = "ok" => Committed(p) /\ BatchPublished(p)
                /\ (Committed(p) /\ BatchLost(p)) =>
                    /\ outcome[did[p]] = "err"
                    /\ store[msg[p].body] >= 1)
    /\ [][\A p \in Loops :
            (InDispatch(p) /\ pc[p] = "l_ack" /\ pc'[p] # "l_ack") =>
                LET a == acklog'[Len(acklog')]
                IN /\ Len(acklog') = Len(acklog) + 1
                   /\ a.id = did[p]
                   /\ a.op = "ack" => Committed(p) /\ BatchPublished(p)
                   /\ (Committed(p) /\ BatchLost(p)) =>
                        /\ a.op = "nack"
                        /\ a.ok => queue' = Append(queue, msg[p])
                        /\ store' = store]_vars
    /\ [][\A c \in Commands : store'[c] >= store[c]]_vars

\* the one command was committed, nacked because its publish failed,
\* delivered again and committed again
C26_Witness ==
    /\ pulled = 2
    /\ queue = <<MsgCommand("c1"), MsgCommand("c1")>>
    /\ acklog[1] = [op |-> "nack", id |-> 1, ok |-> TRUE]
    /\ store["c1"] = 2
====
